---- MODULE Spec2Model ----
(***************************************************************************)
(* Feature Statistics widget (owfeaturestatistics.py): the statistics     *)
(* table model FeatureStatisticsTableModel and the widget                  *)
(* OWFeatureStatistics that drives it.                                     *)
(*                                                                         *)
(* Conventions of the model                                                *)
(*  - a number is a pair <<m, 1>> holding the value in thousandths         *)
(*    (fixed point), or one of the IEEE specials NaN = <<0, 0>>,           *)
(*    +inf = <<1, 0>>, -inf = <<-1, 0>>;                                   *)
(*  - a Python list / numpy array is a sequence; rows and indices keep     *)
(*    their 0-based Python values and are stored at position value + 1;    *)
(*  - None is a distinguished value of the same shape as the real ones     *)
(*    (NoData, NoDomain, NoVar, NoSort, NoTable);                          *)
(*  - matrices are dense; a column of a matrix is the sequence of its      *)
(*    raw values (category index, number, or NaN for a missing entry).     *)
(***************************************************************************)
EXTENDS Integers, Sequences, FiniteSets, TLC

(***************************************************************************)
(* Bounds of the model.                                                    *)
(***************************************************************************)
MaxOps == 3            \* widget operations explored after construction
MaxSelected == 2       \* rows a user selection holds
MaxLen == 3            \* entries of an array handed to _argsortData on its own

(***************************************************************************)
(* Numbers.                                                                *)
(***************************************************************************)
Scale == 10 * 10 * 10
NaN == <<0, 0>>
PosInf == <<1, 0>>
NegInf == <<-1, 0>>
Num(m) == <<m, 1>>
Raw(v) == <<v * Scale, 1>>
IsNaN(x) == x = NaN
IsFinite(x) == x[2] = 1

\* position of a number in numpy's sort order: -inf < finite < +inf < NaN
NumRank(x) == IF IsFinite(x) THEN 1 ELSE IF x = NegInf THEN 0 ELSE IF x = PosInf THEN 2 ELSE 3
NumLess(a, b) == \/ NumRank(a) < NumRank(b)
                 \/ NumRank(a) = 1 /\ NumRank(b) = 1 /\ a[1] < b[1]

RECURSIVE SqrtSearch(_, _, _)
SqrtSearch(x, lo, hi) ==
    IF lo >= hi THEN lo
    ELSE LET mid == (lo + hi + 1) \div 2
         IN IF mid * mid <= x THEN SqrtSearch(x, mid, hi) ELSE SqrtSearch(x, lo, mid - 1)
\* floor of the square root of a natural number (below 2^31)
ISqrt(x) == SqrtSearch(x, 0, IF x < 46340 THEN x ELSE 46340)

\* IEEE division of two integers, result in thousandths
IntDiv(n, d) ==
    IF d = 0 THEN (IF n = 0 THEN NaN ELSE IF n > 0 THEN PosInf ELSE NegInf)
    ELSE IF (n >= 0) = (d > 0) \/ n = 0
         THEN Num(((IF n < 0 THEN -n ELSE n) * Scale) \div (IF d < 0 THEN -d ELSE d))
         ELSE Num(-(((IF n < 0 THEN -n ELSE n) * Scale) \div (IF d < 0 THEN -d ELSE d)))

\* natural logarithm in thousandths, of the small counts the model meets
LnTable == <<0, 693, 1099, 1386, 1609, 1792, 1946, 2079>>
Ln(k) == LnTable[k]

(***************************************************************************)
(* Sequences as Python lists.                                              *)
(***************************************************************************)
Range(s) == {s[i] : i \in DOMAIN s}
RECURSIVE SumSeq(_)
SumSeq(s) == IF s = <<>> THEN 0 ELSE Head(s) + SumSeq(Tail(s))
RECURSIVE Flatten(_)
Flatten(ss) == IF ss = <<>> THEN <<>> ELSE Head(ss) \o Flatten(Tail(ss))
\* the subsequence of s at the (1-based) positions in P, in ascending order,
\* from position i on
RECURSIVE SelectAt(_, _, _)
SelectAt(s, P, i) ==
    IF i > Len(s) THEN <<>>
    ELSE (IF i \in P THEN <<s[i]>> ELSE <<>>) \o SelectAt(s, P, i + 1)
Reverse(s) == [i \in 1..Len(s) |-> s[Len(s) + 1 - i]]
\* all sequences over S of length at most n
RECURSIVE Arrangements(_, _)
Arrangements(S, n) ==
    IF n = 0 THEN {<<>>}
    ELSE LET shorter == Arrangements(S, n - 1)
         IN shorter \cup {Append(s, x) : s \in shorter, x \in S}
NoRepeat(s) == \A i, j \in DOMAIN s : i # j => s[i] # s[j]

(***************************************************************************)
(* Variables (column descriptors), datasets and domains (Orange.data).     *)
(***************************************************************************)
DiscreteVariable == "DiscreteVariable"
ContinuousVariable == "ContinuousVariable"
TimeVariable == "TimeVariable"
StringVariable == "StringVariable"

Var(name, kind, ordered) == [name |-> name, kind |-> kind, ordered |-> ordered]
NoVar == Var("None", "None", FALSE)
Column(var, vals) == [var |-> var, vals |-> vals]
Vars(cols) == [i \in 1..Len(cols) |-> cols[i].var]

\* a Table: three groups of columns over n instances
Table(name, attributes, class_vars, metas, n) ==
    [name |-> name, attributes |-> attributes, class_vars |-> class_vars,
     metas |-> metas, n |-> n]
NoData == Table("None", <<>>, <<>>, <<>>, 0)

\* data.domain
Domain(attributes, class_vars, metas) ==
    [attributes |-> attributes, class_vars |-> class_vars, metas |-> metas, none |-> FALSE]
NoDomain == [attributes |-> <<>>, class_vars |-> <<>>, metas |-> <<>>, none |-> TRUE]
DomainOf(tbl) ==
    IF tbl = NoData THEN NoDomain
    ELSE Domain(Vars(tbl.attributes), Vars(tbl.class_vars), Vars(tbl.metas))

\* position of x in sequence s (1-based), 0 when absent
IndexIn(s, x) == IF \E i \in DOMAIN s : s[i] = x
                 THEN CHOOSE i \in DOMAIN s : s[i] = x /\ \A j \in 1..(i - 1) : s[j] # x
                 ELSE 0

\* Domain.index(var): attributes and class variables count from 0, metas
\* count down from -1 (Orange.data.Domain, called at line 216)
DomainIndex(dom, var) ==
    LET variables == dom.attributes \o dom.class_vars
    IN IF IndexIn(variables, var) > 0 THEN IndexIn(variables, var) - 1
       ELSE -IndexIn(dom.metas, var)

\* numpy indexing vec[i] with an int: negative i counts from the end
InBounds(vec, i) == -Len(vec) <= i /\ i < Len(vec)
NpItem(vec, i) == IF i >= 0 THEN vec[i + 1] ELSE vec[Len(vec) + i + 1]

(***************************************************************************)
(* The datasets the widget is given.                                       *)
(***************************************************************************)
\* attributes with a hidden Time column first, a class variable, two metas
DataA ==
    Table("A",
          <<Column(Var("t1", TimeVariable, FALSE), <<Raw(0), Raw(1)>>),
            Column(Var("c1", ContinuousVariable, FALSE), <<Raw(0), Raw(1)>>)>>,
          <<Column(Var("d1", DiscreteVariable, FALSE), <<Raw(1), NaN>>)>>,
          <<Column(Var("m1", DiscreteVariable, TRUE), <<NaN, NaN>>),
            Column(Var("m2", ContinuousVariable, FALSE), <<Raw(1), Raw(1)>>)>>,
          2)
\* attributes only: two columns with equal statistics and one all-missing column
DataB ==
    Table("B",
          <<Column(Var("a1", ContinuousVariable, FALSE), <<Raw(1), Raw(1)>>),
            Column(Var("B2", ContinuousVariable, FALSE), <<NaN, NaN>>),
            Column(Var("a3", ContinuousVariable, FALSE), <<Raw(1), Raw(1)>>)>>,
          <<>>, <<>>, 2)
\* a dataset without instances
DataZ ==
    Table("Z",
          <<Column(Var("z1", ContinuousVariable, FALSE), <<>>),
            Column(Var("z2", DiscreteVariable, FALSE), <<>>)>>,
          <<>>, <<>>, 0)
Datasets == {DataA, DataB, DataZ}
Inputs == Datasets \cup {NoData}

(***************************************************************************)
(* FeatureStatisticsTableModel: column classification.                     *)
(***************************************************************************)
HIDDEN_VAR_TYPES == {StringVariable, TimeVariable}

ICON == 0
NAME == 1
DISTRIBUTION == 2
CENTER == 3
DISPERSION == 4
MIN == 5
MAX == 6
MISSING == 7
Columns == {ICON, NAME, DISTRIBUTION, CENTER, DISPERSION, MIN, MAX, MISSING}
ColumnName(c) ==
    CASE c = ICON -> "" [] c = NAME -> "Name" [] c = DISTRIBUTION -> "Distribution"
      [] c = CENTER -> "Center" [] c = DISPERSION -> "Dispersion" [] c = MIN -> "Min."
      [] c = MAX -> "Max." [] c = MISSING -> "Missing"

\* a (variables, matrix) pair: the matrix is the sequence of its columns,
\* shape is its numpy shape (rows, columns); clear() stores 1-d empty arrays
Pair(variables, x, nrows) == [variables |-> variables, x |-> x, nrows |-> nrows]
EmptyPair == Pair(<<>>, <<>>, 0)
\* matrix.size
MatSize(pair) == pair.nrows * Len(pair.x)

\* the 1-based positions of the columns whose variable satisfies Test
PositionsWhere(variables, Test(_)) == {i \in 1..Len(variables) : Test(variables[i])}

IsDiscrete(v) == v.kind = DiscreteVariable
IsContinuous(v) == v.kind = ContinuousVariable
IsTime(v) == v.kind = TimeVariable
IsString(v) == v.kind = StringVariable
IsHidden(v) == v.kind \in HIDDEN_VAR_TYPES
IsVisible(v) == ~IsHidden(v)

\* _attr_indices: TimeVariable subclasses ContinuousVariable and is kept apart
attr_indices(attrs) ==
    [disc |-> PositionsWhere(attrs, IsDiscrete), cont |-> PositionsWhere(attrs, IsContinuous),
     time |-> PositionsWhere(attrs, IsTime), str |-> PositionsWhere(attrs, IsString)]

\* __filter_attributes(attributes, matrix)
filter_attributes(cols, nrows) ==
    LET mask == PositionsWhere(Vars(cols), IsVisible)
        kept == SelectAt(cols, mask, 1)
    IN Pair(Vars(kept), [i \in 1..Len(kept) |-> kept[i].vals], nrows)

(***************************************************************************)
(* Statistics Engine: the per-column reducers.  Every reducer of the       *)
(* source works column-wise (axis=0), so it is given here for one column.  *)
(***************************************************************************)
NonNaN(vals) == SelectAt(vals, {i \in 1..Len(vals) : ~IsNaN(vals[i])}, 1)
Thousandths(vals) == [i \in 1..Len(vals) |-> vals[i][1]]
Squares(ms) == [i \in 1..Len(ms) |-> ms[i] * ms[i]]
CountOf(vals, v) == Cardinality({i \in 1..Len(vals) : vals[i] = v})

\* ss.mode(x)[0]: scores are tried in ascending order and replace the
\* running mode only on a strictly larger count; NaN equals nothing, so it
\* never counts, and the running mode starts as 0 with count 0
mode(vals) ==
    LET present == NonNaN(vals)
    IN IF present = <<>> THEN Num(0)
       ELSE CHOOSE v \in Range(present) :
                \A w \in Range(present) :
                    \/ CountOf(vals, w) < CountOf(vals, v)
                    \/ CountOf(vals, w) = CountOf(vals, v) /\ ~NumLess(w, v)

\* ut.nanmean(x, axis=0)
nanmean(vals) ==
    LET ms == Thousandths(NonNaN(vals))
    IN IntDiv(SumSeq(ms), Len(ms) * Scale)

\* a faulty dispersion: the mean over the standard deviation
coefficient_of_variation_inverted(vals) ==
    LET ms == Thousandths(NonNaN(vals))
        S == SumSeq(ms)
        Q == SumSeq(Squares(ms))
    IN IntDiv(S, ISqrt(Len(ms) * Q - S * S))

\* np.sqrt(ut.nanvar(x, axis=0)) / ut.nanmean(x, axis=0): with S the sum and
\* Q the sum of squares of the k present values, sqrt(k*Q - S*S) / S
coefficient_of_variation(vals) ==
    LET ms == Thousandths(NonNaN(vals))
        S == SumSeq(ms)
        Q == SumSeq(Squares(ms))
    IN IntDiv(ISqrt(Len(ms) * Q - S * S), S)

\* _categorical_entropy: the bin counts of the present values, normalised,
\* then ss.entropy (natural logarithm); no present value gives no bins and
\* the empty sum 0
categorical_entropy(vals) ==
    LET present == NonNaN(vals)
        T == Len(present)
        \* count * ln(count), once per category (at its first occurrence)
        weighted == [i \in 1..T |->
                        IF \E j \in 1..(i - 1) : present[j] = present[i] THEN 0
                        ELSE CountOf(present, present[i]) * Ln(CountOf(present, present[i]))]
    IN IF T = 0 THEN Num(0) ELSE Num((T * Ln(T) - SumSeq(weighted)) \div T)

\* ut.nanmin(x, axis=0), ut.nanmax(x, axis=0)
nanmin(vals) ==
    LET present == Range(NonNaN(vals))
    IN IF present = {} THEN NaN ELSE CHOOSE v \in present : \A w \in present : ~NumLess(w, v)
nanmax(vals) ==
    LET present == Range(NonNaN(vals))
    IN IF present = {} THEN NaN ELSE CHOOSE v \in present : \A w \in present : ~NumLess(v, w)

\* ut.countnans(x, axis=0); a missing string is the sentinel too
countnans(vals) == Raw(Len(vals) - Len(NonNaN(vals)))
count_unknown(vals) == countnans(vals)
\* the functions __compute_statistics hands to __compute_stat, by name; None
\* when there is none for a kind of variable
NoReducer == "None"
reduce(f, vals) ==
    CASE f = "ss.mode" -> mode(vals)
      [] f = "ut.nanmean" -> nanmean(vals)
      [] f = "_categorical_entropy" -> categorical_entropy(vals)
      [] f = "sqrt(nanvar)/nanmean" -> coefficient_of_variation(vals)
      [] f = "ut.nanmin" -> nanmin(vals)
      [] f = "ut.nanmax" -> nanmax(vals)
      [] f = "ut.countnans" -> countnans(vals)
      [] f = "(x == Unknown).sum" -> count_unknown(vals)

\* __compute_stat: one result per variable of every matrix handed in; a
\* reducer runs on the columns of its kind only when there is one and that
\* slice has size
compute_stat(matrices, discrete_f, continuous_f, time_f, string_f) ==
    LET default_val == NaN
        GroupResult(pair) ==
            LET idx == attr_indices(pair.variables)
                sized(I) == pair.nrows * Cardinality(I) # 0
                runs(f, I) == f # NoReducer /\ sized(I)
            IN [i \in 1..Len(pair.variables) |->
                   IF i \in idx.disc /\ runs(discrete_f, idx.disc)
                   THEN reduce(discrete_f, pair.x[i])
                   ELSE IF i \in idx.cont /\ runs(continuous_f, idx.cont)
                   THEN reduce(continuous_f, pair.x[i])
                   ELSE IF i \in idx.time /\ runs(time_f, idx.time)
                   THEN reduce(time_f, pair.x[i])
                   ELSE IF i \in idx.str /\ runs(string_f, idx.str)
                   THEN reduce(string_f, pair.x[i])
                   ELSE default_val]
    IN IF Len(matrices) = 0 THEN <<>>
       ELSE Flatten([g \in 1..Len(matrices) |-> GroupResult(matrices[g])])

\* the variables property: the three filtered variable arrays, stacked
variables_of(attributes, class_vars, metas) ==
    IF attributes.variables = <<>> /\ class_vars.variables = <<>> /\ metas.variables = <<>>
    THEN <<>>
    ELSE attributes.variables \o class_vars.variables \o metas.variables

\* str.lower() of a variable name
UpperCaseNames == [B2 |-> "b2"]
Lower(name) == IF name \in DOMAIN UpperCaseNames THEN UpperCaseNames[name] ELSE name

\* __compute_statistics: the matrices without size are dropped first
compute_statistics(attributes, class_vars, metas) ==
    LET all == <<attributes, class_vars, metas>>
        matrices == SelectAt(all, {g \in 1..3 : MatSize(all[g]) # 0}, 1)
        variables == variables_of(attributes, class_vars, metas)
    IN [assigned |-> TRUE,
        variable_types |-> [i \in 1..Len(variables) |-> variables[i].kind],
        variable_names |-> [i \in 1..Len(variables) |-> Lower(variables[i].name)],
        center |-> compute_stat(matrices, "ss.mode", "ut.nanmean", NoReducer, NoReducer),
        dispersion |-> compute_stat(matrices, "_categorical_entropy", "sqrt(nanvar)/nanmean",
                                    NoReducer, NoReducer),
        min |-> compute_stat(matrices, "ut.nanmin", "ut.nanmin", NoReducer, NoReducer),
        max |-> compute_stat(matrices, "ut.nanmax", "ut.nanmax", NoReducer, NoReducer),
        missing |-> compute_stat(matrices, "ut.countnans", "ut.countnans", "ut.countnans",
                                 "(x == Unknown).sum")]
\* the attributes __compute_statistics assigns do not exist before its first run
Unassigned ==
    [assigned |-> FALSE, variable_types |-> <<>>, variable_names |-> <<>>, center |-> <<>>,
     dispersion |-> <<>>, min |-> <<>>, max |-> <<>>, missing |-> <<>>]

(***************************************************************************)
(* Sortable Projection Model: sorting.                                     *)
(***************************************************************************)
AscendingOrder == "AscendingOrder"
DescendingOrder == "DescendingOrder"
Orders == {AscendingOrder, DescendingOrder}

\* the strings the model sorts (type names and lower-cased variable names),
\* in the order numpy compares them
StrOrder == <<"ContinuousVariable", "DiscreteVariable", "StringVariable", "TimeVariable",
              "a1", "a2", "a3", "b2", "c1", "c2", "c3", "d1", "m1", "m2", "m3", "s1", "t1",
              "z1", "z2">>
StrLess(a, b) == IndexIn(StrOrder, a) < IndexIn(StrOrder, b)

\* np.argsort(data, kind='mergesort'): the stable ascending order, as 0-based indices
ArgSort(arr, numeric) ==
    LET n == Len(arr)
        Less(a, b) == IF numeric THEN NumLess(a, b) ELSE StrLess(a, b)
        PosOf(k) == 1 + Cardinality({j \in 1..n : \/ Less(arr[j], arr[k])
                                                  \/ ~Less(arr[k], arr[j]) /\ j < k})
    IN [p \in 1..n |-> (CHOOSE k \in 1..n : PosOf(k) = p) - 1]
\* np.roll(indices, -k)
RollLeft(indices, k) ==
    [i \in 1..Len(indices) |-> indices[((i - 1 + k) % Len(indices)) + 1]]
NanCount(arr) == Cardinality({i \in 1..Len(arr) : IsNaN(arr[i])})

\* a faulty _argsortData: the descending order is the reversed ascending
\* order, the NaN block left at the head
argsortData_without_roll(arr, order, numeric) ==
    LET indices == ArgSort(arr, numeric)
    IN IF order = DescendingOrder THEN Reverse(indices) ELSE indices

\* a faulty _argsortData: the reversed order is rolled to the right
argsortData_rolled_right(arr, order, numeric) ==
    LET indices == ArgSort(arr, numeric)
    IN IF order = DescendingOrder
       THEN IF numeric THEN RollLeft(Reverse(indices), Len(arr) - NanCount(arr))
            ELSE Reverse(indices)
       ELSE indices

\* _argsortData(arr, order); numeric is np.issubdtype(arr.dtype, np.number)
argsortData(arr, order, numeric) ==
    LET indices == ArgSort(arr, numeric)
    IN IF order = DescendingOrder
       THEN IF numeric THEN RollLeft(Reverse(indices), NanCount(arr)) ELSE Reverse(indices)
       ELSE indices

\* sortColumnData(column)
sortColumnData(st, column) ==
    CASE column = ICON -> st.variable_types
      [] column = NAME -> st.variable_names
      [] column = DISTRIBUTION -> st.variable_names
      [] column = CENTER -> st.center
      [] column = DISPERSION -> st.dispersion
      [] column = MIN -> st.min
      [] column = MAX -> st.max
      [] column = MISSING -> st.missing
\* the dtype numpy gives the array: float for the statistic vectors and for
\* an empty list, str for the type and name lists
IsNumericData(arr, column) == column \in {CENTER, DISPERSION, MIN, MAX, MISSING} \/ arr = <<>>

(***************************************************************************)
(* FeatureStatisticsTableModel: set_data, clear, get_statistics_matrix.    *)
(***************************************************************************)
ModelState(t, dom, tv, n_attrs, n_inst, attrs, cls, mts, st) ==
    [table |-> t, domain |-> dom, target_var |-> tv, n_attributes |-> n_attrs,
     n_instances |-> n_inst, attributes |-> attrs, class_vars |-> cls, metas |-> mts,
     stats |-> st]

\* clear(): the statistic vectors and the name/type lists are not touched
clear(st) == ModelState(NoData, NoDomain, NoVar, 0, 0, EmptyPair, EmptyPair, EmptyPair, st)

\* set_data(data) for a table
set_data_table(d) ==
    LET attrs == filter_attributes(d.attributes, d.n)
        cls == filter_attributes(d.class_vars, d.n)
        mts == filter_attributes(d.metas, d.n)
    IN ModelState(d, DomainOf(d), NoVar, Len(variables_of(attrs, cls, mts)), d.n,
                  attrs, cls, mts, compute_statistics(attrs, cls, mts))
\* set_data(data)
set_data(d, st) == IF d = NoData THEN clear(st) ELSE set_data_table(d)

\* numpy fancy indexing vec[indices] with a list of ints
AllInBounds(vec, indices) == \A i \in DOMAIN indices : InBounds(vec, indices[i])
Take(vec, indices) == [i \in 1..Len(indices) |-> NpItem(vec, indices[i])]

\* get_statistics_matrix(variables, return_labels=True) for a non-empty list
\* of variables of a model that has a table
statistics_labels == <<ColumnName(CENTER), ColumnName(DISPERSION), ColumnName(MIN),
                       ColumnName(MAX), ColumnName(MISSING)>>
statistics_indices(dom, variables) ==
    [i \in 1..Len(variables) |-> DomainIndex(dom, variables[i])]
statistics_matrix_raises(dom, st, variables) ==
    LET indices == statistics_indices(dom, variables)
    IN \E vec \in {st.center, st.dispersion, st.min, st.max, st.missing} :
           ~AllInBounds(vec, indices)
get_statistics_matrix(dom, st, variables) ==
    LET indices == statistics_indices(dom, variables)
    IN [i \in 1..Len(variables) |->
           <<NpItem(st.center, indices[i]), NpItem(st.dispersion, indices[i]),
             NpItem(st.min, indices[i]), NpItem(st.max, indices[i]),
             NpItem(st.missing, indices[i])>>]

\* the sort permutation when the model is not sorted (None), and the
\* outcome of a call that raised nothing
NoSort == <<-1>>
NoException == "none"

(***************************************************************************)
(* FeatureStatisticsTableModel.data(index, role).                          *)
(***************************************************************************)
DisplayRole == "DisplayRole"
BackgroundRole == "BackgroundRole"
TextAlignmentRole == "TextAlignmentRole"
DecorationRole == "DecorationRole"
Roles == {DisplayRole, BackgroundRole, TextAlignmentRole, DecorationRole}

\* a QModelIndex: the invalid index, or a row and a column
InvalidIndex == [valid |-> FALSE, row |-> -1, column |-> -1]
Index(row, column) == [valid |-> TRUE, row |-> row, column |-> column]

\* what a call returns or raises: kind is "None", "QVariant" (the empty
\* QVariant), "value" or the exception; row is the source row the index was
\* mapped to (-1 when there is none); read tells whether self.variables[row]
\* was evaluated; cached is the histogram cache the call leaves
Outcome(kind, row, read, output, cached) ==
    [kind |-> kind, row |-> row, read |-> read, output |-> output, cached |-> cached]
NoOutput == <<"None">>
\* attribute.str_val(value): "?" for NaN, the category label otherwise
str_val(attribute, value) ==
    IF IsNaN(value) THEN <<"str", "?">> ELSE <<"str", attribute.name, value>>
\* the text of a cell: 'NaN', the infinities, '%.2f' of a float; None and
\* strings pass unchanged
format_output(output) ==
    IF output[1] # "float" THEN output
    ELSE IF IsNaN(output[2]) THEN <<"str", "NaN">>
    ELSE IF output[2] = PosInf THEN <<"str", "inf">>
    ELSE IF output[2] = NegInf THEN <<"str", "-inf">>
    ELSE <<"str", "%.2f", output[2]>>

\* the scene stored at __distributions_cache[row]: the Histogram of a
\* variable of a table, coloured by a variable (None for no colour)
Histogram(row, tbl, variable, color_attribute) ==
    [row |-> row, data |-> tbl.name, variable |-> variable.name,
     color_attribute |-> color_attribute.name]

data_of(index, role, m, ind, cache) ==
    IF ~index.valid THEN Outcome("None", -1, FALSE, NoOutput, cache)
    ELSE IF ind # NoSort /\ ~InBounds(ind, index.row)
    THEN Outcome("IndexError", -1, FALSE, NoOutput, cache)
    ELSE
    LET row == IF ind = NoSort THEN index.row ELSE NpItem(ind, index.row)
        column == index.column
        variables == variables_of(m.attributes, m.class_vars, m.metas)
        attribute == NpItem(variables, row)
        st == m.stats
        Cell(vec, Shown(_)) ==
            IF ~InBounds(vec, row) THEN Outcome("IndexError", row, TRUE, NoOutput, cache)
            ELSE Outcome("value", row, TRUE, format_output(Shown(NpItem(vec, row))), cache)
        AsFloat(v) == <<"float", v>>
        AsLabel(v) == IF IsNaN(v) THEN <<"float", v>> ELSE str_val(attribute, v)
        AsStrVal(v) == str_val(attribute, v)
    IN IF ~(0 <= row /\ row <= m.n_attributes)
       THEN Outcome("QVariant", row, FALSE, NoOutput, cache)
       ELSE IF ~InBounds(variables, row)
       THEN Outcome("IndexError", row, TRUE, NoOutput, cache)
       ELSE IF role = BackgroundRole
       THEN Outcome("value", row, TRUE,
                    IF attribute \in Range(m.domain.attributes) THEN <<"color", "ATTRIBUTE">>
                    ELSE IF attribute \in Range(m.domain.metas) THEN <<"color", "META">>
                    ELSE <<"color", "CLASS_VAR">>, cache)
       ELSE IF role = TextAlignmentRole
       THEN Outcome("value", row, TRUE,
                    IF column = NAME THEN <<"align", "left">> ELSE <<"align", "right">>, cache)
       ELSE IF role = DecorationRole
       THEN IF column = ICON
            THEN Outcome("value", row, TRUE, <<"icon", attribute.kind>>, cache)
            ELSE Outcome("value", row, TRUE, NoOutput, cache)
       ELSE CASE column = ICON -> Outcome("value", row, TRUE, NoOutput, cache)
              [] column = NAME ->
                   Outcome("value", row, TRUE, <<"str", attribute.name>>, cache)
              [] column = DISTRIBUTION ->
                   IF IsDiscrete(attribute) \/ IsContinuous(attribute) \/ IsTime(attribute)
                   THEN IF \E scene \in cache : scene.row = row
                        THEN Outcome("value", row, TRUE,
                                     <<"scene", CHOOSE scene \in cache : scene.row = row>>,
                                     cache)
                        ELSE Outcome("value", row, TRUE,
                                     <<"scene", Histogram(row, m.table, attribute,
                                                          m.target_var)>>,
                                     cache \cup {Histogram(row, m.table, attribute,
                                                           m.target_var)})
                   ELSE Outcome("value", row, TRUE, NoOutput, cache)
              [] column = CENTER ->
                   IF IsDiscrete(attribute) THEN Cell(st.center, AsLabel)
                   ELSE Cell(st.center, AsFloat)
              [] column = DISPERSION -> Cell(st.dispersion, AsFloat)
              [] column = MIN ->
                   IF IsDiscrete(attribute)
                   THEN IF attribute.ordered THEN Cell(st.min, AsStrVal)
                        ELSE Outcome("value", row, TRUE, NoOutput, cache)
                   ELSE Cell(st.min, AsFloat)
              [] column = MAX ->
                   IF IsDiscrete(attribute)
                   THEN IF attribute.ordered THEN Cell(st.max, AsStrVal)
                        ELSE Outcome("value", row, TRUE, NoOutput, cache)
                   ELSE Cell(st.max, AsFloat)
              [] column = MISSING ->
                   IF ~InBounds(st.missing, row)
                   THEN Outcome("IndexError", row, TRUE, NoOutput, cache)
                   ELSE IF m.n_instances = 0
                   THEN Outcome("ValueError", row, TRUE, NoOutput, cache)
                   ELSE Outcome("value", row, TRUE,
                                <<"str", "%d (%d%%)", NpItem(st.missing, row)[1] \div Scale,
                                  (100 * (NpItem(st.missing, row)[1] \div Scale))
                                      \div m.n_instances>>, cache)

(***************************************************************************)
(* State.                                                                  *)
(***************************************************************************)
VARIABLES
    \* FeatureStatisticsTableModel
    table, domain, target_var, n_attributes, n_instances,
    __attributes, __class_vars, __metas, __distributions_cache,
    stats,              \* _variable_types, _variable_names, _center, _dispersion,
                        \* _min, _max, _missing (and whether they are assigned yet)
    \* AbstractSortTableModel
    sortInd, sortColumn, sortOrder,
    \* FeatureStatisticsTableView: the selected display rows (persistent
    \* indexes, in selection order) and the header's sort indicator
    view_selection, indicator,
    \* OWFeatureStatistics
    data, selected_rows, sorting, color_var, auto_commit, dirty,
    contexts, current_context,
    out_reduced_data, out_statistics,
    \* what the last operation was and how it ended; the argument and the
    \* widget state of the last set_data call; the selection each context held
    \* when it was last closed; the number of operations so far
    lastOp, exc, slot_exc, commit_ran, result, call, closed_selection, ops,
    \* a vector on its own (a statistic vector to sort, or the values of one
    \* column of a dataset with the variable that describes it), the column
    \* it is sorted as or read at, the sort order and the permutation
    \* _argsortData returned
    probe

modelVars == <<table, domain, target_var, n_attributes, n_instances,
               __attributes, __class_vars, __metas, stats>>
sortVars == <<sortInd, sortColumn, sortOrder>>
viewVars == <<view_selection, indicator>>
settingVars == <<selected_rows, sorting, color_var, auto_commit>>
contextVars == <<contexts, current_context>>
outputVars == <<out_reduced_data, out_statistics, dirty>>
vars == <<modelVars, __distributions_cache, sortVars, viewVars, data, settingVars,
          contextVars, outputVars, lastOp, exc, slot_exc, commit_ran, result, call,
          closed_selection, ops, probe>>

(***************************************************************************)
(* AbstractSortTableModel (Orange.widgets.utils.itemmodels), the base      *)
(* class whose sort, mapToSourceRows and mapFromSourceRows the widget      *)
(* calls.                                                                  *)
(***************************************************************************)
\* whether ind[rows] raises IndexError
RowsInRange(rows, ind) == \A i \in DOMAIN rows : 0 <= rows[i] /\ rows[i] < Len(ind)
\* the inverse permutation np.argsort(ind), 0-based
Inverse(ind) == [r \in 1..Len(ind) |-> IndexIn(ind, r - 1) - 1]
\* mapToSourceRows(rows) for a list of rows; defined when MapsToSource holds
MapsToSource(rows, ind) == ind = NoSort \/ rows = <<>> \/ RowsInRange(rows, ind)
mapToSourceRows(rows, ind) ==
    IF ind = NoSort \/ rows = <<>> THEN rows
    ELSE [i \in 1..Len(rows) |-> ind[rows[i] + 1]]
mapFromSourceRows(rows, ind) ==
    IF ind = NoSort \/ rows = <<>> THEN rows
    ELSE [i \in 1..Len(rows) |-> Inverse(ind)[rows[i] + 1]]

\* _sort(column, order): None for no column, otherwise
\* _argsortData(np.asarray(sortColumnData(column)), order)
sort_indices(column, order, st) ==
    IF column < 0 THEN NoSort
    ELSE argsortData(sortColumnData(st, column), order,
                     IsNumericData(sortColumnData(st, column), column))

\* sort(column, order) once _sort has returned indices
sorted_by(indices, source_rows, column, order, persistent) ==
    IF ~MapsToSource(source_rows, indices)
    THEN [exc |-> "IndexError", sortInd |-> indices, sortColumn |-> column,
          sortOrder |-> order, persistent |-> persistent]
    ELSE [exc |-> NoException, sortInd |-> indices, sortColumn |-> column,
          sortOrder |-> order, persistent |-> mapFromSourceRows(source_rows, indices)]

\* sort(column, order): the persistent indexes are mapped to source rows, the
\* new order is computed from sortColumnData and _argsortData, and the
\* persistent indexes are mapped back.  The result is the new sort state and
\* persistent rows, with the exception that ended the call, if one did.
sort(column, order, ind, col0, ord0, persistent, st) ==
    IF ~MapsToSource(persistent, ind)
    THEN [exc |-> "IndexError", sortInd |-> ind, sortColumn |-> col0, sortOrder |-> ord0,
          persistent |-> persistent]
    ELSE IF column >= 0 /\ ~st.assigned
    THEN [exc |-> "AttributeError", sortInd |-> ind, sortColumn |-> column,
          sortOrder |-> order, persistent |-> persistent]
    ELSE CHOOSE r \in {sorted_by(indices, source_rows, column, order, persistent) :
                          indices \in {sort_indices(column, order, st)},
                          source_rows \in {mapToSourceRows(persistent, ind)}} : TRUE

(***************************************************************************)
(* OWFeatureStatistics: outputs and commit.                                *)
(***************************************************************************)
NotSent == [kind |-> "unsent"]
SentNone == [kind |-> "None"]

\* a faulty projection: every selected variable becomes an attribute
reduced_table_as_attributes(d, variables) ==
    [kind |-> "Table", attributes |-> variables, class_vars |-> <<>>, metas |-> <<>>,
     n |-> d.n]

\* self.data[:, variables]: Table.__getitem__ rebuilds the domain from the
\* column indices, attributes below the number of attributes, class
\* variables above, metas negative
reduced_table(d, variables) ==
    LET dom == DomainOf(d)
        n_attrs == Len(dom.attributes)
        col == [i \in 1..Len(variables) |-> DomainIndex(dom, variables[i])]
        part(P) == SelectAt(variables, P, 1)
    IN [kind |-> "Table",
        attributes |-> part({i \in 1..Len(variables) : 0 <= col[i] /\ col[i] < n_attrs}),
        class_vars |-> part({i \in 1..Len(variables) : col[i] >= n_attrs}),
        metas |-> part({i \in 1..Len(variables) : col[i] < 0}),
        n |-> d.n]

statistics_table(d, variables, matrix) ==
    [kind |-> "Table", attributes |-> statistics_labels, X |-> matrix,
     metas_names |-> <<"Feature">>,
     metas |-> [i \in 1..Len(variables) |-> variables[i].name],
     name |-> <<d.name, " (Feature Statistics)">>]

\* a faulty empty output: a table without rows and columns
empty_table_output ==
    [kind |-> "Table", attributes |-> <<>>, class_vars |-> <<>>, metas |-> <<>>, n |-> 0]

\* the value sent when nothing is selected
empty_output == SentNone

\* commit(): what it sends to the two outputs (reduced is sent first, so an
\* exception of get_statistics_matrix leaves the statistics output as it was)
commit(d, m, sel, prev_statistics) ==
    IF Len(sel) = 0
    THEN [reduced |-> empty_output, statistics |-> empty_output, exc |-> NoException]
    ELSE LET all == variables_of(m.attributes, m.class_vars, m.metas)
             variables == Take(all, sel)
         IN IF statistics_matrix_raises(m.domain, m.stats, variables)
            THEN [reduced |-> reduced_table(d, variables), statistics |-> prev_statistics,
                  exc |-> "IndexError"]
            ELSE [reduced |-> reduced_table(d, variables),
                  statistics |-> statistics_table(d, variables,
                                     get_statistics_matrix(m.domain, m.stats, variables)),
                  exc |-> NoException]

\* the commit gui.auto_commit installs: commit now when auto_commit is set,
\* otherwise remember that the outputs are out of date
conditional_commit(auto, d, m, sel, prev_reduced, prev_statistics, prev_dirty) ==
    IF auto
    THEN CHOOSE sent \in {[reduced |-> c.reduced, statistics |-> c.statistics,
                            exc |-> c.exc, ran |-> TRUE,
                            dirty |-> IF c.exc = NoException THEN FALSE ELSE prev_dirty] :
                              c \in {commit(d, m, sel, prev_statistics)}} : TRUE
    ELSE [reduced |-> prev_reduced, statistics |-> prev_statistics, exc |-> NoException,
          ran |-> FALSE, dirty |-> TRUE]
no_commit(prev_reduced, prev_statistics, prev_dirty) ==
    [reduced |-> prev_reduced, statistics |-> prev_statistics, exc |-> NoException,
     ran |-> FALSE, dirty |-> prev_dirty]

(***************************************************************************)
(* Settings and DomainContextHandler: one context per encoded domain;      *)
(* closeContext stores the context settings, openContext restores the      *)
(* context of a known domain and creates one from the widget otherwise.    *)
(***************************************************************************)
Settings(ac, cv, so, sr) ==
    [exists |-> TRUE, auto_commit |-> ac, color_var |-> cv, sorting |-> so,
     selected_rows |-> sr]
NoContext ==
    [exists |-> FALSE, auto_commit |-> TRUE, color_var |-> NoVar,
     sorting |-> <<ICON, DescendingOrder>>, selected_rows |-> <<>>]
\* encode_domain: names and types of attributes with class variables, and of metas
Encoded(variables) == {<<variables[i].name, variables[i].kind>> : i \in DOMAIN variables}
EncodeDomain(dom) ==
    [attrs |-> Encoded(dom.attributes \o dom.class_vars), metas |-> Encoded(dom.metas),
     none |-> dom.none]
NoKey == EncodeDomain(NoDomain)
ContextKeys == {EncodeDomain(DomainOf(d)) : d \in Datasets}
\* a faulty closeContext: the selection is emptied before it is stored
closeContext_after_clearing(ctxs, current, ac, cv, so, sr) ==
    IF current = NoKey THEN ctxs ELSE [ctxs EXCEPT ![current] = Settings(ac, cv, so, <<>>)]

closeContext(ctxs, current, ac, cv, so, sr) ==
    IF current = NoKey THEN ctxs ELSE [ctxs EXCEPT ![current] = Settings(ac, cv, so, sr)]

(***************************************************************************)
(* Init: the widget after __init__ (the model cleared, no data, default    *)
(* settings, nothing sent, header indicator at Qt's default).              *)
(***************************************************************************)
NoCall == [data |-> NoData, replaced |-> NoData, selected_rows |-> <<>>]
NoProbe == [arr |-> <<>>, column |-> -1, order |-> "none", indices |-> NoSort,
            variable |-> NoVar]
\* the contexts the settings file holds when the widget is created: none, or
\* one saved by an earlier session for the domain of DataB with its second
\* row selected
StoredContexts ==
    {[k \in ContextKeys |-> NoContext],
     [k \in ContextKeys |->
         IF k = EncodeDomain(DomainOf(DataB))
         THEN Settings(TRUE, NoVar, <<ICON, DescendingOrder>>, <<1>>) ELSE NoContext]}
NoResult == [kind |-> "none", row |-> -1, read |-> FALSE, output |-> NoOutput]
InitialModel == clear(Unassigned)

WidgetInit ==
    /\ table = InitialModel.table
    /\ domain = InitialModel.domain
    /\ target_var = InitialModel.target_var
    /\ n_attributes = InitialModel.n_attributes
    /\ n_instances = InitialModel.n_instances
    /\ __attributes = InitialModel.attributes
    /\ __class_vars = InitialModel.class_vars
    /\ __metas = InitialModel.metas
    /\ stats = InitialModel.stats
    /\ __distributions_cache = {}
    /\ sortInd = NoSort
    /\ sortColumn = -1
    /\ sortOrder = AscendingOrder
    /\ view_selection = <<>>
    /\ indicator = <<ICON, DescendingOrder>>
    /\ data = NoData
    /\ selected_rows = <<>>
    /\ sorting = <<ICON, DescendingOrder>>
    /\ color_var = NoVar
    /\ auto_commit = TRUE
    /\ dirty = FALSE
    /\ contexts \in StoredContexts
    /\ current_context = NoKey
    /\ out_reduced_data = NotSent
    /\ out_statistics = NotSent
    /\ lastOp = "init"
    /\ exc = NoException
    /\ slot_exc = NoException
    /\ commit_ran = FALSE
    /\ result = NoResult
    /\ call = NoCall
    /\ closed_selection = [k \in ContextKeys |->
                               [was |-> contexts[k].exists, sel |-> contexts[k].selected_rows]]
    /\ ops = 0

Init ==
    /\ WidgetInit
    /\ probe = NoProbe

\* the model as the state holds it
Model == ModelState(table, domain, target_var, n_attributes, n_instances,
                    __attributes, __class_vars, __metas, stats)
SetModel(m) ==
    /\ table' = m.table
    /\ domain' = m.domain
    /\ target_var' = m.target_var
    /\ n_attributes' = m.n_attributes
    /\ n_instances' = m.n_instances
    /\ __attributes' = m.attributes
    /\ __class_vars' = m.class_vars
    /\ __metas' = m.metas
    /\ stats' = m.stats
SetSort(r) ==
    /\ sortInd' = r.sortInd
    /\ sortColumn' = r.sortColumn
    /\ sortOrder' = r.sortOrder
SetOutputs(c) ==
    /\ out_reduced_data' = c.reduced
    /\ out_statistics' = c.statistics
    /\ dirty' = c.dirty
    /\ commit_ran' = c.ran
    /\ slot_exc' = c.exc
Step(op) ==
    /\ ops < MaxOps
    /\ ops' = ops + 1
    /\ lastOp' = op
    /\ probe' = probe

\* the rows of a selection that name a row of the model (model.index(row, 0)
\* is invalid for any other row, and an invalid range selects nothing)
ValidRows(rows, n) == SelectAt(rows, {i \in 1..Len(rows) : 0 <= rows[i] /\ rows[i] < n}, 1)

(***************************************************************************)
(* OWFeatureStatistics.set_data(data), the Data input handler.             *)
(***************************************************************************)
\* set_data once resetSorting has returned: model.set_data, openContext,
\* __restore_selection, __restore_sorting, __color_var_changed
set_data_opened(d, closed, reset, m, key, opened, rows) ==
    \E selected \in {IF rows # <<>> THEN mapToSourceRows(rows, NoSort)
                     ELSE opened.selected_rows},
       \* __restore_sorting
       restored \in {sort(opened.sorting[1], opened.sorting[2], reset.sortInd,
                          reset.sortColumn, reset.sortOrder, rows, m.stats)} :
        \* __restore_selection: select(..., ClearAndSelect) emits selectionChanged
        \* when it selects something; on_select follows
        \E sent \in {IF rows # <<>>
                     THEN conditional_commit(opened.auto_commit, d, m, selected,
                                             out_reduced_data, out_statistics, dirty)
                     ELSE no_commit(out_reduced_data, out_statistics, dirty)} :
            /\ contexts' = IF d # NoData /\ ~closed[key].exists
                           THEN [closed EXCEPT ![key] = opened] ELSE closed
            /\ current_context' = IF d = NoData THEN NoKey ELSE key
            /\ data' = d
            /\ selected_rows' = selected
            /\ sorting' = opened.sorting
            /\ color_var' = opened.color_var
            /\ auto_commit' = opened.auto_commit
            /\ SetOutputs(sent)
            /\ SetSort(restored)
            /\ view_selection' = restored.persistent
            /\ exc' = restored.exc
            /\ __distributions_cache' = {}
            /\ IF restored.exc # NoException
               THEN \* model.sort raised: no setSortIndicator, no
                    \* __color_var_changed, no set_info
                    /\ SetModel(m)
                    /\ indicator' = indicator
               ELSE \* __color_var_changed: model.set_target_var(color_var)
                    /\ SetModel([m EXCEPT !.target_var = opened.color_var])
                    /\ indicator' = opened.sorting

SetData(d) ==
    /\ Step("set_data")
    /\ result' = NoResult
    /\ call' = [data |-> d, replaced |-> data, selected_rows |-> selected_rows]
    /\ closed_selection' =
           IF current_context = NoKey THEN closed_selection
           ELSE [closed_selection EXCEPT ![current_context] =
                                             [was |-> TRUE, sel |-> selected_rows]]
    /\ \E closed \in {closeContext(contexts, current_context, auto_commit, color_var,
                                   sorting, selected_rows)},
          \* self.model.resetSorting()
          reset \in {sort(-1, AscendingOrder, sortInd, sortColumn, sortOrder,
                          view_selection, stats)} :
           IF reset.exc # NoException
           THEN \* resetSorting raised: set_data ends here
                /\ contexts' = closed
                /\ current_context' = NoKey
                /\ selected_rows' = <<>>
                /\ SetSort(reset)
                /\ view_selection' = reset.persistent
                /\ exc' = reset.exc
                /\ slot_exc' = NoException
                /\ commit_ran' = FALSE
                /\ UNCHANGED <<modelVars, __distributions_cache, indicator, data, sorting,
                               color_var, auto_commit, outputVars>>
           ELSE \E color1 \in {IF d # NoData
                               THEN IF Len(d.class_vars) > 0 THEN d.class_vars[1].var
                                    ELSE color_var
                               ELSE NoVar},
                   \* self.model.set_data(data); the model reset empties the
                   \* view's selection without a selectionChanged
                   m \in {set_data(d, stats)},
                   key \in {EncodeDomain(DomainOf(d))} :
                    \* self.openContext(self.data)
                    \E opened \in {IF d # NoData /\ closed[key].exists THEN closed[key]
                                   ELSE Settings(auto_commit, color1, sorting, <<>>)} :
                        \E rows \in {ValidRows(mapFromSourceRows(opened.selected_rows,
                                                                 NoSort),
                                               m.n_attributes)} :
                            set_data_opened(d, closed, reset, m, key, opened, rows)

(***************************************************************************)
(* The user changes the selection of the view; selectionChanged runs       *)
(* on_select.                                                              *)
(***************************************************************************)
\* a faulty on_select: the display rows are stored as they are
on_select_display_rows(rows) ==
    IF MapsToSource(rows, sortInd)
    THEN /\ selected_rows' = rows
         /\ \E sent \in {conditional_commit(auto_commit, data, Model, selected_rows',
                                            out_reduced_data, out_statistics, dirty)} :
                SetOutputs(sent)
    ELSE /\ selected_rows' = selected_rows
         /\ SetOutputs([no_commit(out_reduced_data, out_statistics, dirty)
                           EXCEPT !.exc = "IndexError"])

on_select(rows) ==
    IF MapsToSource(rows, sortInd)
    THEN /\ selected_rows' = mapToSourceRows(rows, sortInd)
         /\ \E sent \in {conditional_commit(auto_commit, data, Model, selected_rows',
                                            out_reduced_data, out_statistics, dirty)} :
                SetOutputs(sent)
    ELSE \* mapToSourceRows raised IndexError inside the slot
         /\ selected_rows' = selected_rows
         /\ SetOutputs([no_commit(out_reduced_data, out_statistics, dirty)
                           EXCEPT !.exc = "IndexError"])

Select(rows) ==
    /\ Step("on_select")
    /\ rows # view_selection
    /\ view_selection' = rows
    /\ on_select(rows)
    /\ exc' = NoException
    /\ result' = NoResult
    /\ UNCHANGED <<modelVars, __distributions_cache, sortVars, indicator, data, sorting,
                   color_var, auto_commit, contextVars, call, closed_selection>>

(***************************************************************************)
(* The user clicks a header section: the header flips its sort indicator,  *)
(* the view sorts the model, then sectionClicked runs on_header_click.     *)
(***************************************************************************)
Flip(order) == IF order = DescendingOrder THEN AscendingOrder ELSE DescendingOrder
on_header_click == sorting' = <<sortColumn', sortOrder'>>

HeaderClick(section) ==
    /\ Step("on_header_click")
    /\ \E order \in {IF indicator[1] = section THEN Flip(indicator[2])
                      ELSE AscendingOrder} :
           \E sorted \in {sort(section, order, sortInd, sortColumn, sortOrder,
                               view_selection, stats)} :
               /\ indicator' = <<section, order>>
               /\ SetSort(sorted)
               /\ view_selection' = sorted.persistent
               /\ slot_exc' = sorted.exc
    /\ on_header_click
    /\ exc' = NoException
    /\ commit_ran' = FALSE
    /\ result' = NoResult
    /\ UNCHANGED <<modelVars, __distributions_cache, data, selected_rows, color_var,
                   auto_commit, contextVars, out_reduced_data, out_statistics, dirty,
                   call, closed_selection>>

(***************************************************************************)
(* The commit button (unconditional_commit) and the auto-commit checkbox.  *)
(***************************************************************************)
unconditional_commit ==
    \E c \in {commit(data, Model, selected_rows, out_statistics)} :
        /\ out_reduced_data' = c.reduced
        /\ out_statistics' = c.statistics
        /\ dirty' = IF c.exc = NoException THEN FALSE ELSE dirty
        /\ commit_ran' = TRUE
        /\ exc' = c.exc

Commit ==
    /\ Step("commit")
    /\ unconditional_commit
    /\ slot_exc' = NoException
    /\ result' = NoResult
    /\ UNCHANGED <<modelVars, __distributions_cache, sortVars, viewVars, data, settingVars,
                   contextVars, call, closed_selection>>

ToggleAutoCommit ==
    /\ Step("auto_commit")
    /\ auto_commit' = ~auto_commit
    /\ IF auto_commit' /\ dirty
       THEN unconditional_commit
       ELSE /\ commit_ran' = FALSE
            /\ exc' = NoException
            /\ UNCHANGED <<out_reduced_data, out_statistics, dirty>>
    /\ slot_exc' = NoException
    /\ result' = NoResult
    /\ UNCHANGED <<modelVars, __distributions_cache, sortVars, viewVars, data, selected_rows,
                   sorting, color_var, contextVars, call, closed_selection>>

(***************************************************************************)
(* The colour combo box: __color_var_changed -> model.set_target_var.      *)
(***************************************************************************)
\* the DomainModel of the combo: None and the continuous and discrete
\* variables of the domain (Time is a continuous variable)
ColorChoices ==
    {NoVar} \cup {v \in Range(DomainOf(data).attributes \o DomainOf(data).class_vars
                                \o DomainOf(data).metas) : ~IsString(v)}
\* a faulty set_target_var: the cached histograms are kept
set_target_var_keeping_cache(variable) ==
    /\ target_var' = variable
    /\ __distributions_cache' = __distributions_cache

set_target_var(variable) ==
    /\ target_var' = variable
    /\ __distributions_cache' = {}

ColorChanged(variable) ==
    /\ Step("color_var_changed")
    /\ variable # color_var
    /\ color_var' = variable
    /\ set_target_var(variable)
    /\ exc' = NoException
    /\ slot_exc' = NoException
    /\ commit_ran' = FALSE
    /\ result' = NoResult
    /\ UNCHANGED <<table, domain, n_attributes, n_instances, __attributes, __class_vars,
                   __metas, stats, sortVars, viewVars, data, selected_rows, sorting,
                   auto_commit, contextVars, outputVars, call, closed_selection>>

(***************************************************************************)
(* A call of model.data(index, role).  The view asks for the indexes       *)
(* model.index gives (rows below rowCount); createIndex and an index kept  *)
(* across a model reset give the row just past the end as well.            *)
(***************************************************************************)
Indexes == {InvalidIndex} \cup {Index(row, column) : row \in 0..n_attributes, column \in Columns}

DataQuery(index, role) ==
    /\ Step("data")
    /\ \E r \in {data_of(index, role, Model, sortInd, __distributions_cache)} :
           /\ result' = [kind |-> r.kind, row |-> r.row, read |-> r.read,
                         output |-> r.output]
           /\ __distributions_cache' = r.cached
    /\ exc' = NoException
    /\ slot_exc' = NoException
    /\ commit_ran' = FALSE
    /\ UNCHANGED <<modelVars, sortVars, viewVars, data, settingVars, contextVars, outputVars,
                   call, closed_selection>>

\* the selections a user can make: rows of the view, each at most once
Selections == {rows \in Arrangements(0..(n_attributes - 1), MaxSelected) : NoRepeat(rows)}

Next ==
    \/ \E d \in Inputs : SetData(d)
    \/ \E rows \in Selections : Select(rows)
    \/ \E section \in Columns : HeaderClick(section)
    \/ Commit
    \/ ToggleAutoCommit

Spec == Init /\ [][Next]_vars

\* the model under the view's reads: datasets arrive, the header is clicked,
\* the colour variable changes and cells are read
NextData ==
    \/ \E d \in Inputs : SetData(d)
    \/ \E section \in Columns : HeaderClick(section)
    \/ \E variable \in ColorChoices : ColorChanged(variable)
    \/ \E index \in Indexes, role \in Roles : DataQuery(index, role)

SpecData == Init /\ [][NextData]_vars

(***************************************************************************)
(* Sorting on its own: a statistic vector is drawn, then the model that    *)
(* holds it in one statistic column is sorted by that column, through      *)
(* sortColumnData and _argsortData, in one of the two orders.              *)
(***************************************************************************)
Numbers == {NaN, Raw(1), Raw(2), PosInf}
RECURSIVE SeqsUpTo(_, _)
SeqsUpTo(S, n) ==
    IF n = 0 THEN {<<>>}
    ELSE LET shorter == SeqsUpTo(S, n - 1)
         IN shorter \cup {Append(a, x) : a \in {b \in shorter : Len(b) = n - 1}, x \in S}
Arrays == SeqsUpTo(Numbers, MaxLen)
StatisticColumns == {CENTER, DISPERSION, MIN, MAX, MISSING}
\* the statistics of a model whose vector of the given column is arr
StatsWith(column, arr) ==
    [assigned |-> TRUE, variable_types |-> <<>>, variable_names |-> <<>>,
     center |-> IF column = CENTER THEN arr ELSE <<>>,
     dispersion |-> IF column = DISPERSION THEN arr ELSE <<>>,
     min |-> IF column = MIN THEN arr ELSE <<>>,
     max |-> IF column = MAX THEN arr ELSE <<>>,
     missing |-> IF column = MISSING THEN arr ELSE <<>>]

InitSort ==
    /\ WidgetInit
    /\ contexts = [k \in ContextKeys |-> NoContext]
    /\ probe \in {[NoProbe EXCEPT !.arr = a] : a \in Arrays}

\* _sort(column, order): _argsortData(np.asarray(sortColumnData(column)), order)
ArgSortData(column, order) ==
    /\ probe.indices = NoSort
    /\ LET keys == sortColumnData(StatsWith(column, probe.arr), column)
       IN probe' = [probe EXCEPT !.column = column, !.order = order,
                                 !.indices = argsortData(keys, order,
                                                         IsNumericData(keys, column))]
    /\ UNCHANGED <<modelVars, __distributions_cache, sortVars, viewVars, data, settingVars,
                   contextVars, outputVars, lastOp, exc, slot_exc, commit_ran, result, call,
                   closed_selection, ops>>

NextSort == \E column \in StatisticColumns, order \in Orders : ArgSortData(column, order)

SpecSort == InitSort /\ [][NextSort]_vars

(***************************************************************************)
(* One column on its own: a numeric or categorical variable and its values *)
(* are drawn, the model is given the dataset that holds just that column   *)
(* (set_data: __filter_attributes, __compute_statistics), then one cell of *)
(* its row is read through data(index, DisplayRole).                       *)
(***************************************************************************)
NumericValues == {NaN, Raw(0), Raw(1), Raw(2), Raw(-2)}
CategoryValues == {NaN, Raw(0), Raw(1)}
ProbeVariables ==
    {Var("p", ContinuousVariable, FALSE), Var("p", DiscreteVariable, FALSE),
     Var("p", DiscreteVariable, TRUE)}
ProbeColumns ==
    {[NoProbe EXCEPT !.arr = a, !.variable = v] :
        a \in SeqsUpTo(NumericValues, MaxLen), v \in {Var("p", ContinuousVariable, FALSE)}}
    \cup {[NoProbe EXCEPT !.arr = a, !.variable = v] :
             a \in SeqsUpTo(CategoryValues, MaxLen),
             v \in {Var("p", DiscreteVariable, FALSE), Var("p", DiscreteVariable, TRUE)}}
\* the dataset whose only column is the probe
ProbeTable == Table("P", <<Column(probe.variable, probe.arr)>>, <<>>, <<>>, Len(probe.arr))

InitStat ==
    /\ WidgetInit
    /\ contexts = [k \in ContextKeys |-> NoContext]
    /\ probe \in ProbeColumns

\* FeatureStatisticsTableModel.set_data(data) on the model itself
ModelSetData ==
    /\ table = NoData
    /\ lastOp' = "model.set_data"
    /\ \E m \in {set_data(ProbeTable, stats)} : SetModel(m)
    /\ __distributions_cache' = {}
    /\ UNCHANGED <<sortVars, viewVars, data, settingVars, contextVars, outputVars, exc,
                   slot_exc, commit_ran, result, call, closed_selection, ops, probe>>

\* data(index(0, column), DisplayRole), once
ReadCell(column) ==
    /\ table # NoData
    /\ result = NoResult
    /\ lastOp' = "data"
    /\ \E r \in {data_of(Index(0, column), DisplayRole, Model, sortInd,
                           __distributions_cache)} :
           /\ result' = [kind |-> r.kind, row |-> r.row, read |-> r.read,
                         output |-> r.output]
           /\ __distributions_cache' = r.cached
    /\ probe' = [probe EXCEPT !.column = column]
    /\ UNCHANGED <<modelVars, sortVars, viewVars, data, settingVars, contextVars, outputVars,
                   exc, slot_exc, commit_ran, call, closed_selection, ops>>

NextStat ==
    \/ ModelSetData
    \/ \E column \in Columns : ReadCell(column)

SpecStat == InitStat /\ [][NextStat]_vars

(***************************************************************************)
(* Properties.                                                             *)
(***************************************************************************)
\* the variables of the model in source-row order, and those selected
ModelVariables == variables_of(__attributes, __class_vars, __metas)
\* the five statistics the model stores at source row r
StoredStatistics(r) ==
    <<NpItem(stats.center, r), NpItem(stats.dispersion, r), NpItem(stats.min, r),
      NpItem(stats.max, r), NpItem(stats.missing, r)>>
StatisticVectors == <<stats.center, stats.dispersion, stats.min, stats.max, stats.missing>>

\* C1: whenever commit() has run with a non-empty selection (on a model whose
\* vectors have an entry for every row), it raised nothing and instance i of
\* the statistics output holds the five statistics stored at the source row
\* of the i-th selected variable.
C1_StatisticsOfSelectedRows ==
    (commit_ran /\ selected_rows # <<>> /\ \A v \in Range(StatisticVectors) :
                                               Len(v) = n_attributes)
        => /\ exc = NoException
           /\ slot_exc = NoException
           /\ out_statistics.kind = "Table"
           /\ out_statistics.X = [i \in 1..Len(selected_rows) |->
                                     StoredStatistics(selected_rows[i])]

C3_EmptySelectionSendsNone ==
    (commit_ran /\ selected_rows = <<>>)
        => out_reduced_data = SentNone /\ out_statistics = SentNone

\* C3 witness: the user cleared a selection of a dataset and commit() ran.
C3_ClearedSelectionCommitted ==
    /\ lastOp = "on_select"
    /\ commit_ran
    /\ data # NoData
    /\ selected_rows = <<>>
    /\ out_reduced_data = SentNone
    /\ out_statistics = SentNone

\* C4: whenever commit() has run with a non-empty selection, the reduced_data
\* output is a table whose attributes, class variables and metas are exactly
\* the selected variables that are attributes, class variables and metas of
\* the input dataset, each once.
C4_ReducedDomainKeepsGroups ==
    (commit_ran /\ selected_rows # <<>>)
        => LET chosen == Range(Take(ModelVariables, selected_rows))
               dom == DomainOf(data)
           IN /\ out_reduced_data.kind = "Table"
              /\ Range(out_reduced_data.attributes) = chosen \cap Range(dom.attributes)
              /\ Range(out_reduced_data.class_vars) = chosen \cap Range(dom.class_vars)
              /\ Range(out_reduced_data.metas) = chosen \cap Range(dom.metas)
              /\ Len(out_reduced_data.attributes) + Len(out_reduced_data.class_vars)
                     + Len(out_reduced_data.metas) = Len(selected_rows)

\* C4 witness: a class variable and a meta were selected together and sent.
C4_ClassAndMetaSent ==
    /\ commit_ran
    /\ Len(selected_rows) = 2
    /\ out_reduced_data.kind = "Table"
    /\ Len(out_reduced_data.class_vars) = 1
    /\ Len(out_reduced_data.metas) = 1

\* C5: in every state, every source row r in [0, n_attributes) maps to a
\* display row and back to r; that is, the installed sort permutation is a
\* permutation of [0, n_attributes).
C5_RoundTrip ==
    \A r \in 0..(n_attributes - 1) :
        \/ sortInd = NoSort
        \/ /\ r < Len(sortInd)
           /\ RowsInRange(mapFromSourceRows(<<r>>, sortInd), sortInd)
           /\ mapToSourceRows(mapFromSourceRows(<<r>>, sortInd), sortInd) = <<r>>

\* C6: after a sort by a statistic column in either order, the permutation
\* covers the whole vector and no row whose value is NaN comes before a row
\* whose value is not NaN.
C6_NaNLast ==
    probe.indices # NoSort
        => /\ Len(probe.indices) = Len(probe.arr)
           /\ \A i, j \in 1..Len(probe.indices) :
                  (i < j /\ IsNaN(NpItem(probe.arr, probe.indices[i])))
                      => IsNaN(NpItem(probe.arr, probe.indices[j]))

\* C6 witness: a vector that starts with NaN and holds a number was sorted
\* in descending order.
C6_DescendingWithNaN ==
    /\ probe.indices # NoSort
    /\ probe.order = DescendingOrder
    /\ Len(probe.arr) >= 2
    /\ IsNaN(probe.arr[1])
    /\ \E i \in DOMAIN probe.arr : ~IsNaN(probe.arr[i])
    /\ ~IsNaN(NpItem(probe.arr, probe.indices[1]))

\* C7: in every state where the model is sorted by a column, two rows with
\* equal sort values appear in display order with the lower source row first.
C7_StableSort ==
    (sortInd # NoSort /\ stats.assigned /\ sortColumn >= 0
     /\ Len(sortInd) = Len(sortColumnData(stats, sortColumn)))
        => LET keys == sortColumnData(stats, sortColumn)
           IN \A i, j \in 1..Len(sortInd) :
                  (i < j /\ NpItem(keys, sortInd[i]) = NpItem(keys, sortInd[j]))
                      => sortInd[i] < sortInd[j]

\* C8: whenever the model holds a table, each of the five statistic vectors
\* has exactly n_attributes entries.
C8_VectorLengths ==
    table # NoData => \A v \in Range(StatisticVectors) : Len(v) = n_attributes

\* C9: after set_data(None) the call has raised nothing, table and domain are
\* None, there are no rows, the five vectors and the name and type lists are
\* empty and the histogram cache is empty.
C9_NoneResetsEverything ==
    (lastOp = "set_data" /\ call.data = NoData)
        => /\ exc = NoException
           /\ table = NoData
           /\ domain = NoDomain
           /\ n_attributes = 0
           /\ \A v \in Range(StatisticVectors) : Len(v) = 0
           /\ Len(stats.variable_names) = 0
           /\ Len(stats.variable_types) = 0
           /\ __distributions_cache = {}

\* C10: a call of data(index, role) whose index maps to a source row outside
\* [0, n_attributes) returns the empty QVariant and does not read
\* self.variables at that row.
C10_OutOfRangeIsInvalidIndex ==
    (lastOp = "data" /\ result.row >= n_attributes)
        => result.kind = "QVariant" /\ ~result.read

\* every cached scene is the one data() builds now for its source row
C11_CachedSceneIsCurrent ==
    \A scene \in __distributions_cache :
        /\ table # NoData
        /\ scene.data = table.name
        /\ scene.color_attribute = target_var.name
        /\ 0 <= scene.row /\ scene.row < n_attributes
        /\ scene.variable = NpItem(ModelVariables, scene.row).name
        /\ \A other \in __distributions_cache : other.row = scene.row => other = scene
\* what one step may do to the cache
C11_CacheStep ==
    /\ lastOp' = "on_header_click" => __distributions_cache' = __distributions_cache
    /\ lastOp' = "color_var_changed" => __distributions_cache' = {}
    /\ lastOp' = "set_data" =>
           \/ __distributions_cache' = {}
           \/ exc' # NoException /\ UNCHANGED <<modelVars, __distributions_cache>>
    /\ (lastOp' = "data" /\ result'.output[1] = "scene") =>
           /\ result'.output[2] \in __distributions_cache'
           /\ result'.output[2].row = result'.row
           /\ \A scene \in __distributions_cache :
                  scene.row = result'.row => result'.output[2] = scene
    /\ (lastOp' = "data" /\ __distributions_cache' # __distributions_cache) =>
           /\ result'.output[1] = "scene"
           /\ __distributions_cache' = __distributions_cache \cup {result'.output[2]}
           /\ \A scene \in __distributions_cache : scene.row # result'.row
\* C11: the histogram cache holds at most one scene per source row, each
\* built from the current table, the variable at that source row and the
\* current target_var; a colour change and a set_data that reaches
\* model.set_data empty it; it grows only by a DISTRIBUTION/DisplayRole read
\* of a source row that had no scene, which returns the scene it stores; a
\* read of a cached row returns the cached scene; a sort leaves it unchanged.
C11_CacheInvalidation ==
    [][C11_CachedSceneIsCurrent /\ C11_CachedSceneIsCurrent' /\ C11_CacheStep]_vars

\* C11 witness: a histogram was cached while the model was sorted by one
\* column, then the header of another column was clicked.
C11_CachedAcrossSort ==
    /\ lastOp = "on_header_click"
    /\ slot_exc = NoException
    /\ __distributions_cache # {}
    /\ sortColumn # ICON
    /\ Len(sortInd) = n_attributes
    /\ \E scene \in __distributions_cache : NpItem(sortInd, scene.row) # scene.row

\* the visible variables of the dataset the widget holds, group by group
C12_VisibleVariablesOf(tbl) ==
    LET all == DomainOf(tbl).attributes \o DomainOf(tbl).class_vars \o DomainOf(tbl).metas
    IN SelectAt(all, {i \in 1..Len(all) : all[i].kind \notin {StringVariable, TimeVariable}}, 1)

\* C12: after every set_data call that raised nothing, model.variables holds
\* no Time or Text variable, n_attributes is the number of variables of the
\* dataset that are neither, and none of the five statistic vectors has an
\* entry beyond those variables.
C12_OnlyVisibleVariables ==
    (lastOp = "set_data" /\ exc = NoException)
        => /\ \A i \in 1..Len(ModelVariables) :
                  ModelVariables[i].kind \notin {StringVariable, TimeVariable}
           /\ n_attributes = Len(C12_VisibleVariablesOf(data))
           /\ \A v \in Range(StatisticVectors) : Len(v) <= n_attributes

\* the view's selected display rows denote, through the installed sort
\* permutation, exactly the source rows selected_rows holds
C13_SelectionIsSourceRows ==
    /\ \A i \in DOMAIN view_selection :
           sortInd # NoSort => 0 <= view_selection[i] /\ view_selection[i] < Len(sortInd)
    /\ Len(selected_rows) = Len(view_selection)
    /\ \A i \in DOMAIN view_selection :
           selected_rows[i] = IF sortInd = NoSort THEN view_selection[i]
                              ELSE sortInd[view_selection[i] + 1]
\* every entry of selected_rows is a row of the model, at most once
C13_RowsOfTheModel ==
    /\ \A i \in DOMAIN selected_rows : 0 <= selected_rows[i] /\ selected_rows[i] < n_attributes
    /\ \A i, j \in DOMAIN selected_rows : i # j => selected_rows[i] # selected_rows[j]
C13_SelectionStep ==
    /\ lastOp' = "on_header_click" => selected_rows' = selected_rows
    /\ (lastOp' = "on_header_click" /\ slot_exc' = NoException /\ C13_SelectionIsSourceRows)
           => C13_SelectionIsSourceRows'
    /\ (lastOp' = "on_select" /\ (sortInd = NoSort \/ \A i \in DOMAIN view_selection' :
                                                          view_selection'[i] < Len(sortInd)))
           => C13_SelectionIsSourceRows'
    /\ (lastOp' = "set_data" /\ exc' = NoException) => C13_SelectionIsSourceRows'
C14_AllValuesAre(c) ==
    /\ table # NoData
    /\ probe.variable.kind = ContinuousVariable
    /\ c # NaN
    /\ \E i \in DOMAIN probe.arr : probe.arr[i] = c
    /\ \A i \in DOMAIN probe.arr : probe.arr[i] = c \/ probe.arr[i] = NaN

C15_AllMissingGivesNaN ==
    (/\ table # NoData
     /\ Len(probe.arr) >= 1
     /\ \A i \in DOMAIN probe.arr : probe.arr[i] = NaN)
        => /\ stats.center = <<NaN>>
           /\ stats.dispersion = <<NaN>>
           /\ stats.min = <<NaN>>
           /\ stats.max = <<NaN>>
           /\ stats.missing = <<Raw(Len(probe.arr))>>

\* C16: reading the Missing cell of a column with m missing values among N
\* instances raises nothing, for every 0 <= m <= N including N = 0, and for
\* N > 0 returns "m (p%)" with p = 100 * m / N truncated to an integer.
C16_MissingCellText ==
    (lastOp = "data" /\ probe.column = MISSING)
        => LET N == Len(probe.arr)
               m == Cardinality({i \in DOMAIN probe.arr : probe.arr[i] = NaN})
           IN /\ result.kind = "value"
              /\ N > 0 => result.output = <<"str", "%d (%d%%)", m, (100 * m) \div N>>

\* C17: reading a Center, Dispersion, Min or Max cell of a column with at
\* least one instance returns: nothing for the Min and Max of a categorical
\* variable that is not ordered; otherwise 'NaN' when the statistic is NaN
\* (so also for the Min and Max of an ordered categorical column whose
\* values are all missing); otherwise the category label for the Center,
\* Min and Max of a categorical variable.
C17_UniformFormatting ==
    (lastOp = "data" /\ probe.column \in {CENTER, DISPERSION, MIN, MAX} /\ Len(probe.arr) >= 1)
        => LET shown == sortColumnData(stats, probe.column)[1]
               categorical == probe.variable.kind = DiscreteVariable
           IN /\ result.kind = "value"
              /\ IF categorical /\ probe.column \in {MIN, MAX} /\ ~probe.variable.ordered
                 THEN result.output = <<"None">>
                 ELSE IF shown = NaN
                 THEN result.output = <<"str", "NaN">>
                 ELSE (categorical /\ probe.column # DISPERSION)
                          => result.output = <<"str", probe.variable.name, shown>>

\* C18: whenever commit() has run with a selection of k >= 1 source rows, the
\* statistics output is a table of k instances with the five attributes
\* Center, Dispersion, Min., Max., Missing in that order and one text meta,
\* whose value in instance i is the name of the i-th selected variable.
C18_StatisticsTableShape ==
    (commit_ran /\ selected_rows # <<>>)
        => /\ out_statistics.kind = "Table"
           /\ Len(out_statistics.X) = Len(selected_rows)
           /\ \A i \in DOMAIN out_statistics.X : Len(out_statistics.X[i]) = 5
           /\ out_statistics.attributes = <<"Center", "Dispersion", "Min.", "Max.", "Missing">>
           /\ Len(out_statistics.metas_names) = 1
           /\ out_statistics.metas =
                  [i \in 1..Len(selected_rows) |->
                      NpItem(ModelVariables, selected_rows[i]).name]

\* C19: after a descending sort of a numeric vector of n entries, k of them
\* NaN, the first n - k display rows are the first n - k rows of the
\* ascending sort in reverse, and the last k display rows are the NaN rows.
C19_DescendingReversesNonNaN ==
    (probe.indices # NoSort /\ probe.order = DescendingOrder)
        => LET n == Len(probe.arr)
               k == Cardinality({i \in 1..n : probe.arr[i] = NaN})
               ascending == argsortData(probe.arr, AscendingOrder, TRUE)
           IN /\ Len(probe.indices) = n
              /\ \A i \in 1..(n - k) : probe.indices[i] = ascending[n - k + 1 - i]
              /\ \A i \in (n - k + 1)..n : probe.arr[probe.indices[i] + 1] = NaN
              /\ \A i \in 1..(n - k) : probe.arr[probe.indices[i] + 1] # NaN

\* C19 witness: a vector with two different numbers and a NaN before them
\* was sorted in descending order.
C19_DescendingTwoNumbersAndNaN ==
    /\ probe.indices # NoSort
    /\ probe.order = DescendingOrder
    /\ Len(probe.arr) = 3
    /\ probe.arr[1] = NaN
    /\ probe.arr[2] # NaN /\ probe.arr[3] # NaN /\ probe.arr[2] # probe.arr[3]
    /\ probe.indices[3] = 0

\* the columns of the model's table that are neither Time nor Text:
\* attributes, then class variables, then metas, each group in its order
C20_VisibleColumns ==
    LET all == table.attributes \o table.class_vars \o table.metas
    IN SelectAt(all, {i \in 1..Len(all) :
                         all[i].var.kind \notin {StringVariable, TimeVariable}}, 1)
\* the five statistics of one column
C20_StatisticsOf(col) ==
    IF col.var.kind = DiscreteVariable
    THEN <<mode(col.vals), categorical_entropy(col.vals), nanmin(col.vals),
           nanmax(col.vals), countnans(col.vals)>>
    ELSE <<nanmean(col.vals), coefficient_of_variation(col.vals), nanmin(col.vals),
           nanmax(col.vals), countnans(col.vals)>>

\* C20: whenever the model holds a table, source row r is the r-th of its
\* visible columns (attributes, class variables, metas, each group in its
\* order), every one of the five vectors has an entry r and it is that
\* column's statistic, and a commit() of a selection sends in reduced_data
\* exactly the variables at the selected source rows.
C20_CanonicalOrdering ==
    table # NoData
        => /\ ModelVariables = [r \in 1..Len(C20_VisibleColumns) |-> C20_VisibleColumns[r].var]
           /\ n_attributes = Len(C20_VisibleColumns)
           /\ \A r \in 1..Len(C20_VisibleColumns) :
                  /\ \A v \in Range(StatisticVectors) : r <= Len(v)
                  /\ <<stats.center[r], stats.dispersion[r], stats.min[r], stats.max[r],
                        stats.missing[r]>> = C20_StatisticsOf(C20_VisibleColumns[r])
           /\ (commit_ran /\ selected_rows # <<>>)
                  => /\ out_reduced_data.kind = "Table"
                     /\ Range(out_reduced_data.attributes) \cup Range(out_reduced_data.class_vars)
                            \cup Range(out_reduced_data.metas)
                          = {C20_VisibleColumns[selected_rows[i] + 1].var :
                                i \in DOMAIN selected_rows}

\* C21: with auto-commit on, after a set_data, a selection change or a header
\* click that raised nothing, the outputs describe the current dataset and
\* selected_rows: no table on either output when selected_rows is empty (so
\* none left over from a previous dataset), and otherwise the reduced table
\* and the statistics table of the selected variables of the current dataset.
C21_OutputsFollowSelection ==
    (/\ auto_commit
     /\ lastOp \in {"set_data", "on_select", "on_header_click"}
     /\ exc = NoException
     /\ slot_exc = NoException)
        => IF selected_rows = <<>>
           THEN out_reduced_data.kind # "Table" /\ out_statistics.kind # "Table"
           ELSE /\ out_reduced_data = reduced_table(data, Take(ModelVariables, selected_rows))
                /\ out_statistics.kind = "Table"
                /\ out_statistics.name[1] = data.name
                /\ out_statistics.metas =
                       [i \in 1..Len(selected_rows) |->
                           NpItem(ModelVariables, selected_rows[i]).name]

\* C22: in every state the data of every sort column has exactly rowCount()
\* = n_attributes entries, and an installed sort permutation has length
\* n_attributes; after set_data(None) in particular, where there are no rows.
C22_SortDataMatchesRowCount ==
    /\ \A column \in Columns : Len(sortColumnData(stats, column)) = n_attributes
    /\ sortInd # NoSort => Len(sortInd) = n_attributes
    /\ (lastOp = "set_data" /\ call.data = NoData)
           => exc = NoException /\ (sortInd # NoSort => Len(sortInd) = 0)
====
